---- MODULE Spec2Model ----
(***************************************************************************)
(* Model of the dokploy-mc directory explorer.                             *)
(*                                                                         *)
(*   src/lib/directory.ts            resolvePath, buildBreadcrumbs,        *)
(*                                   readDirectory                         *)
(*   src/app/api/directory/route.ts  GET                                   *)
(*   src/unnamed/part_001            DirectoryExplorer (React component)   *)
(*                                                                         *)
(* Strings are sequences of one-character strings, so that prefix tests,   *)
(* splitting and joining are computed character by character as the code   *)
(* computes them.                                                          *)
(***************************************************************************)
EXTENDS Integers, Sequences, FiniteSets

\* ------------------------------------------------------------------ bounds

\* A requested path is a concatenation of at most MaxTokens tokens.
MaxTokens == 3
\* A listed directory has at most MaxChildren children (plus one fixed
\* four-child listing, see ExampleListing).
MaxChildren == 3
\* The explorer issues at most MaxRequests fetches in one run.
MaxRequests == 4

\* ------------------------------------------------------- string utilities

Slash == "/"

\* String.prototype.startsWith
StartsWith(s, prefix) ==
    /\ Len(prefix) <= Len(s)
    /\ SubSeq(s, 1, Len(prefix)) = prefix

\* String.prototype.replace(/^\/+/, ''): drop every leading separator.
RECURSIVE StripLeadingSlashes(_)
StripLeadingSlashes(s) ==
    IF s # <<>> /\ Head(s) = Slash THEN StripLeadingSlashes(Tail(s)) ELSE s

\* String.prototype.split('/'): the pieces between separators, empty pieces
\* included ("" splits to one empty piece).
RECURSIVE SplitFrom(_, _, _)
SplitFrom(s, i, cur) ==
    IF i > Len(s) THEN <<cur>>
    ELSE IF s[i] = Slash THEN <<cur>> \o SplitFrom(s, i + 1, <<>>)
    ELSE SplitFrom(s, i + 1, Append(cur, s[i]))

Split(s) == SplitFrom(s, 1, <<>>)

\* Array.prototype.filter(Boolean) on strings: the empty string is falsy.
FilterBoolean(segs) == SelectSeq(segs, LAMBDA x : x # <<>>)

\* Array.prototype.join('/')
RECURSIVE JoinSlash(_)
JoinSlash(segs) ==
    IF segs = <<>> THEN <<>>
    ELSE IF Len(segs) = 1 THEN segs[1]
    ELSE segs[1] \o <<Slash>> \o JoinSlash(Tail(segs))

Dot == <<".">>
DotDot == <<".", ".">>

\* path (posix) normalizeString(path, allowAboveRoot = false): empty and "."
\* segments are dropped, ".." removes the segment before it and is dropped
\* at the root.
RECURSIVE NormalizeSegments(_, _)
NormalizeSegments(segs, acc) ==
    IF segs = <<>> THEN acc
    ELSE LET seg == Head(segs) IN
         IF seg = <<>> \/ seg = Dot THEN NormalizeSegments(Tail(segs), acc)
         ELSE IF seg = DotDot
              THEN NormalizeSegments(Tail(segs),
                       IF acc = <<>> THEN acc ELSE SubSeq(acc, 1, Len(acc) - 1))
              ELSE NormalizeSegments(Tail(segs), Append(acc, seg))

NormalizeString(p) == JoinSlash(NormalizeSegments(Split(p), <<>>))

\* path.resolve(from, to) for an absolute `from`: the arguments are taken
\* right to left until one is absolute, empty arguments are skipped, and the
\* concatenation is normalized.
PathResolve(from, to) ==
    LET raw == IF to = <<>> THEN from
               ELSE IF Head(to) = Slash THEN to
               ELSE from \o <<Slash>> \o to
    IN <<Slash>> \o NormalizeString(raw)

\* path.join(dir, name) for an absolute `dir`.
PathJoin(dir, name) ==
    <<Slash>> \o NormalizeString(IF name = <<>> THEN dir ELSE dir \o <<Slash>> \o name)

\* Length of the longest common prefix of two segment sequences.
RECURSIVE CommonLen(_, _)
CommonLen(a, b) ==
    IF a = <<>> \/ b = <<>> \/ Head(a) # Head(b) THEN 0
    ELSE 1 + CommonLen(Tail(a), Tail(b))

\* path.relative(from, to) for absolute, normalized arguments: one ".." per
\* segment of `from` below the common ancestor, then the rest of `to`.
PathRelative(from, to) ==
    LET f == FilterBoolean(Split(from))
        t == FilterBoolean(Split(to))
        c == CommonLen(f, t)
    IN JoinSlash([i \in 1..(Len(f) - c) |-> DotDot] \o SubSeq(t, c + 1, Len(t)))

\* --------------------------------------------------------- directory.ts

BASE_DIRECTORY == <<"/", "d", "p", "-", "a", "p", "p", "s">>

\* path.basename(BASE_DIRECTORY) || BASE_DIRECTORY
BaseLabel ==
    LET segs == FilterBoolean(Split(BASE_DIRECTORY))
    IN IF segs = <<>> THEN BASE_DIRECTORY ELSE segs[Len(segs)]

OutOfBoundsText == "Requested path is outside the allowed directory."

\* The path resolvePath computes before its containment test.
TargetPathNoStrip(requestedPath) == PathResolve(BASE_DIRECTORY, requestedPath)
TargetPath(requestedPath) ==
    PathResolve(BASE_DIRECTORY, StripLeadingSlashes(requestedPath))

\* resolvePath's containment test.
OutOfBounds(targetPath) == ~StartsWith(targetPath, BASE_DIRECTORY)

\* buildBreadcrumbs: the reduce over the non-empty segments.
RECURSIVE ReduceCrumbs(_, _, _)
ReduceCrumbs(segs, pathAcc, crumbs) ==
    IF segs = <<>> THEN crumbs
    ELSE LET segment == Head(segs)
             nextPath == IF pathAcc # <<>>
                         THEN pathAcc \o <<Slash>> \o segment
                         ELSE segment
         IN ReduceCrumbs(Tail(segs), nextPath,
                         Append(crumbs, [label |-> segment, path |-> nextPath]))

buildBreadcrumbsNoAccumulate(requestedPath) ==
    LET segs == FilterBoolean(Split(requestedPath))
    IN << [label |-> BaseLabel, path |-> <<>>] >>
           \o [i \in 1..Len(segs) |-> [label |-> segs[i], path |-> segs[i]]]
buildBreadcrumbs(requestedPath) ==
    ReduceCrumbs(FilterBoolean(Split(requestedPath)), <<>>,
                 << [label |-> BaseLabel, path |-> <<>>] >>)

\* null, as a value no string equals (every character is one letter long).
Null == <<"null">>

\* parentPath: the second-to-last breadcrumb's path, or null.
ParentPathOf(breadcrumbs) ==
    IF Len(breadcrumbs) > 1 THEN breadcrumbs[Len(breadcrumbs) - 1].path ELSE Null

\* ------------------------------------------------------------ the sort

\* Collation weights of String.prototype.localeCompare (ICU root collation)
\* for the characters the listings use: punctuation sorts before letters,
\* letters compare first without regard to case, then lower case before
\* upper case.  "K_212A" stands for U+212A KELVIN SIGN, canonically
\* equivalent to "K": the two compare equal.
Primary(c) ==
    CASE c = "." -> 0
      [] c \in {"a", "A"} -> 1
      [] c \in {"b", "B"} -> 2
      [] c \in {"k", "K", "K_212A"} -> 3
      [] c \in {"t", "T"} -> 4
      [] c \in {"x", "X"} -> 5
      [] OTHER -> 6

Tertiary(c) == IF c \in {"A", "B", "K", "K_212A", "T", "X"} THEN 1 ELSE 0

\* Lexicographic comparison of two weight sequences: -1, 0 or 1.
RECURSIVE CompareWeights(_, _)
CompareWeights(u, v) ==
    IF u = <<>> THEN (IF v = <<>> THEN 0 ELSE -1)
    ELSE IF v = <<>> THEN 1
    ELSE IF Head(u) < Head(v) THEN -1
    ELSE IF Head(u) > Head(v) THEN 1
    ELSE CompareWeights(Tail(u), Tail(v))

\* a.localeCompare(b)
LocaleCompare(a, b) ==
    LET p == CompareWeights([i \in 1..Len(a) |-> Primary(a[i])],
                            [i \in 1..Len(b) |-> Primary(b[i])])
    IN IF p # 0 THEN p
       ELSE CompareWeights([i \in 1..Len(a) |-> Tertiary(a[i])],
                           [i \in 1..Len(b) |-> Tertiary(b[i])])

\* The comparator handed to entries.sort.
CompareEntriesFilesFirst(a, b) ==
    IF a.type # b.type
    THEN (IF a.type = "directory" THEN 1 ELSE -1)
    ELSE LocaleCompare(a.name, b.name)
CompareEntries(a, b) ==
    IF a.type # b.type
    THEN (IF a.type = "directory" THEN -1 ELSE 1)
    ELSE LocaleCompare(a.name, b.name)

\* Array.prototype.sort is stable: an element goes after every element
\* already placed that does not compare greater than it.
RECURSIVE InsertSorted(_, _)
InsertSorted(sorted, x) ==
    IF sorted = <<>> THEN <<x>>
    ELSE IF CompareEntries(Head(sorted), x) <= 0
         THEN <<Head(sorted)>> \o InsertSorted(Tail(sorted), x)
         ELSE <<x>> \o sorted

RECURSIVE SortFrom(_, _)
SortFrom(rest, sorted) ==
    IF rest = <<>> THEN sorted
    ELSE SortFrom(Tail(rest), InsertSorted(sorted, Head(rest)))

SortEntries(entries) == SortFrom(entries, <<>>)

\* ------------------------------------------------- requests and the disk

Foo == <<"f", "o", "o">>
Bar == <<"b", "a", "r">>
Etc == <<"e", "t", "c">>
Evil == <<"d", "p", "-", "a", "p", "p", "s", "-", "e", "v", "i", "l">>

\* The pieces requested paths are built from.
Tokens == { <<Slash>>, Dot, DotDot, Foo, Bar, Etc, Evil }

RECURSIVE Flatten(_)
Flatten(ts) == IF ts = <<>> THEN <<>> ELSE Head(ts) \o Flatten(Tail(ts))

\* Every value of the "path" query parameter the model sends.
RequestPaths ==
    { Flatten(ts) : ts \in UNION { [1..n -> Tokens] : n \in 0..MaxTokens } }

DirA == [name |-> <<"A">>, isDirectory |-> TRUE, size |-> 4096, mtime |-> "t1"]
DirB == [name |-> <<"B">>, isDirectory |-> TRUE, size |-> 4096, mtime |-> "t2"]
FileA == [name |-> <<"a", ".", "t", "x", "t">>, isDirectory |-> FALSE,
          size |-> 12, mtime |-> "t3"]
FileB == [name |-> <<"b", ".", "t", "x", "t">>, isDirectory |-> FALSE,
          size |-> 0, mtime |-> "t4"]
FileK == [name |-> <<"K">>, isDirectory |-> FALSE, size |-> 1, mtime |-> "t5"]
FileKelvin == [name |-> <<"K_212A">>, isDirectory |-> FALSE, size |-> 2,
               mtime |-> "t6"]

\* The children a directory may hold.
DirentUniverse == { DirA, DirB, FileA, FileB, FileK, FileKelvin }

\* What fs.readdir may return: the children in any order, names distinct.
Listings ==
    UNION { { l \in [1..n -> DirentUniverse] :
                \A i, j \in 1..n : i # j => l[i] # l[j] } : n \in 0..MaxChildren }

\* The listing ["b.txt", "A", "a.txt", "B"].
ExampleListing == << FileB, DirA, FileA, DirB >>

\* A disk whose resolved path is a readable directory; statFails are the
\* children whose fs.stat fails.
DirDisks(listings) ==
    UNION { { [code |-> "OK", children |-> l, statFails |-> f] :
                f \in SUBSET (1..Len(l)) } : l \in listings }

\* A disk whose resolved path is missing, is no directory, or is unreadable.
ErrDisks ==
    { [code |-> c, children |-> <<>>, statFails |-> {}] :
        c \in {"ENOENT", "ENOTDIR", "EACCES"} }

\* Every request is tried on SmallDisks; FewPaths are tried on every disk.
SmallDisks ==
    DirDisks({ <<>>, <<DirA>> })
        \cup { d \in ErrDisks : d.code = "ENOENT" }
AllDisks == DirDisks(Listings \cup {ExampleListing}) \cup ErrDisks
FewPaths == { Foo }

\* ----------------------------------------------------------------- state

VARIABLES
    \* the server: one GET /api/directory request
    requestedPath,  \* searchParams.get("path") ?? ""
    disk,           \* the filesystem under the resolved path
    pc,             \* "start", "readdir", "stat", "done" ("idle": no request)
    absolutePath,   \* readDirectory's absolutePath
    dirents,        \* what fs.readdir returned
    pending,        \* indices of the children whose fs.stat is in flight
    results,        \* Promise.all's result array, filled as stats complete
    completed,      \* the children's indices in the order their stats settled
    fsOps,          \* every filesystem call issued
    snapshot,       \* what readDirectory returned
    thrown,         \* what readDirectory threw
    response,       \* what GET answered
    \* the explorer component
    path, data, loading, error, inflight, issued, shown

serverVars == << requestedPath, disk, pc, absolutePath, dirents, pending,
                 results, completed, fsOps, snapshot, thrown, response >>
uiVars == << path, data, loading, error, inflight, issued, shown >>
vars == << serverVars, uiVars >>

NoEntry == [none |-> TRUE]
NoSnapshot == [none |-> TRUE]
NoError == [none |-> TRUE]
NoResponse == [none |-> TRUE]
NoData == [none |-> TRUE]
NoPath == <<"unset">>

\* ------------------------------------------------------------ the server

\* The Error resolvePath throws.
OutOfBoundsError == [message |-> [text |-> OutOfBoundsText, path |-> <<>>]]

\* The Error a failing fs call rejects with; Node's message names the
\* code, the system call and the path: "ENOENT: ..., scandir '/dp-apps/foo'".
FsError(code, syscall, p) ==
    [message |-> [text |-> code \o ", " \o syscall, path |-> p]]

\* GET's catch block: status 400 and the error's own message.
ErrorResponse(err) == [status |-> 400, body |-> [error |-> err.message]]

\* GET's success exit.
OkResponse(snap) == [status |-> 200, body |-> snap]

\* Whether the fs.stat of child i rejects.
StatNeverRejects(d, i) == FALSE
StatRejects(d, i) == i \in d.statFails

\* The entry readDirectory builds for a child once its stat has resolved.
EntryOf(dirent, dir) ==
    [name |-> dirent.name,
     relativePath |-> PathRelative(BASE_DIRECTORY, PathJoin(dir, dirent.name)),
     type |-> IF dirent.isDirectory THEN "directory" ELSE "file",
     size |-> dirent.size,
     modified |-> dirent.mtime]

\* Promise.all keeps each result at the index of its promise.
FirstFree(res) == CHOOSE k \in 1..Len(res) :
    res[k] = NoEntry /\ \A j \in 1..(k - 1) : res[j] # NoEntry
CollectInCompletionOrder(res, i, entry) == [res EXCEPT ![FirstFree(res)] = entry]
Collect(res, i, entry) == [res EXCEPT ![i] = entry]

\* The snapshot readDirectory assembles from the collected entries.
SnapshotOf(req, abs, entries) ==
    LET breadcrumbs == buildBreadcrumbs(req)
    IN [basePath |-> BASE_DIRECTORY,
        requestedPath |-> req,
        absolutePath |-> abs,
        parentPath |-> ParentPathOf(breadcrumbs),
        breadcrumbs |-> breadcrumbs,
        entries |-> SortEntries(entries)]

\* readDirectory rejects; GET catches and answers.
Fail(err) ==
    /\ thrown' = err
    /\ response' = ErrorResponse(err)
    /\ pc' = "done"

InitServer ==
    /\ \E input \in (RequestPaths \X SmallDisks) \cup (FewPaths \X AllDisks) :
          /\ requestedPath = input[1]
          /\ disk = input[2]
    /\ pc = "start"
    /\ absolutePath = NoPath
    /\ dirents = <<>>
    /\ pending = {}
    /\ results = <<>>
    /\ completed = <<>>
    /\ fsOps = {}
    /\ snapshot = NoSnapshot
    /\ thrown = NoError
    /\ response = NoResponse

\* GET calls readDirectory, which resolves the path and either throws or
\* issues fs.readdir.
Resolve ==
    /\ pc = "start"
    /\ LET targetPath == TargetPath(requestedPath) IN
       IF OutOfBounds(targetPath)
       THEN /\ Fail(OutOfBoundsError)
            /\ UNCHANGED << absolutePath, fsOps >>
       ELSE /\ absolutePath' = targetPath
            /\ fsOps' = fsOps \cup {[op |-> "readdir", path |-> targetPath]}
            /\ pc' = "readdir"
            /\ UNCHANGED << thrown, response >>
    /\ UNCHANGED << requestedPath, disk, dirents, pending, results, completed,
                    snapshot >>
    /\ UNCHANGED uiVars

\* fs.readdir settles: a rejection fails the request, a listing starts one
\* fs.stat per child, all at once.
ReaddirDone ==
    /\ pc = "readdir"
    /\ IF disk.code # "OK"
       THEN /\ Fail(FsError(disk.code, "scandir", absolutePath))
            /\ UNCHANGED << dirents, pending, results, fsOps >>
       ELSE /\ dirents' = disk.children
            /\ pending' = 1..Len(disk.children)
            /\ results' = [i \in 1..Len(disk.children) |-> NoEntry]
            /\ fsOps' = fsOps \cup
                  { [op |-> "stat",
                     path |-> PathJoin(absolutePath, disk.children[i].name)] :
                    i \in 1..Len(disk.children) }
            /\ pc' = "stat"
            /\ UNCHANGED << thrown, response >>
    /\ UNCHANGED << requestedPath, disk, absolutePath, completed, snapshot >>
    /\ UNCHANGED uiVars

\* One fs.stat settles, in any order.  The first rejection rejects
\* Promise.all and with it readDirectory; the stats still in flight are
\* abandoned.
StatDone(i) ==
    /\ pc = "stat"
    /\ i \in pending
    /\ completed' = Append(completed, i)
    /\ IF StatRejects(disk, i)
       THEN /\ Fail(FsError("ENOENT", "stat",
                            PathJoin(absolutePath, dirents[i].name)))
            /\ pending' = {}
            /\ UNCHANGED results
       ELSE /\ results' = Collect(results, i, EntryOf(dirents[i], absolutePath))
            /\ pending' = pending \ {i}
            /\ UNCHANGED << thrown, response, pc >>
    /\ UNCHANGED << requestedPath, disk, absolutePath, dirents, fsOps, snapshot >>
    /\ UNCHANGED uiVars

\* Every stat has resolved: sort, build the breadcrumbs, return the
\* snapshot; GET answers 200.
Assemble ==
    /\ pc = "stat"
    /\ pending = {}
    /\ snapshot' = SnapshotOf(requestedPath, absolutePath, results)
    /\ response' = OkResponse(snapshot')
    /\ pc' = "done"
    /\ UNCHANGED << requestedPath, disk, absolutePath, dirents, pending,
                    results, completed, fsOps, thrown >>
    /\ UNCHANGED uiVars

\* ---------------------------------------------------------- the explorer

NoRequest == [id |-> 0, path |-> NoPath]

\* The explorer before it is mounted.
InitUIIdle ==
    /\ path = <<>>
    /\ data = NoData
    /\ loading = FALSE
    /\ error = Null
    /\ inflight = {}
    /\ issued = 0
    /\ shown = NoRequest

Init == InitServer /\ InitUIIdle

Next ==
    \/ Resolve
    \/ ReaddirDone
    \/ \E i \in pending : StatDone(i)
    \/ Assemble

Spec == Init /\ [][Next]_vars

\* The server while the explorer is modelled on its own.
InitServerIdle ==
    /\ requestedPath = <<>>
    /\ disk = [code |-> "OK", children |-> <<>>, statFails |-> {}]
    /\ pc = "idle"
    /\ absolutePath = NoPath
    /\ dirents = <<>>
    /\ pending = {}
    /\ results = <<>>
    /\ completed = <<>>
    /\ fsOps = {}
    /\ snapshot = NoSnapshot
    /\ thrown = NoError
    /\ response = NoResponse

DirFoo == [name |-> Foo, isDirectory |-> TRUE, size |-> 4096, mtime |-> "t7"]
DirBar == [name |-> Bar, isDirectory |-> TRUE, size |-> 4096, mtime |-> "t8"]

\* The tree the explorer browses: /dp-apps/foo/bar.
TreeListing(abs) ==
    IF abs = BASE_DIRECTORY THEN <<DirFoo>>
    ELSE IF abs = BASE_DIRECTORY \o <<Slash>> \o Foo THEN <<DirBar>>
    ELSE <<>>

\* What fetch(`/api/directory?path=...`) resolves to: GET's 200 with the
\* snapshot of the path, or GET's 400 with an error message.
FetchResult(p, ok) ==
    LET abs == TargetPath(p)
        listing == TreeListing(abs)
    IN IF ok
       THEN OkResponse(SnapshotOf(p, abs,
                [i \in 1..Len(listing) |-> EntryOf(listing[i], abs)]))
       ELSE ErrorResponse(FsError("EACCES", "scandir", abs))

\* The breadcrumbs the explorer renders.
ShownBreadcrumbs ==
    IF data # NoData THEN data.breadcrumbs
    ELSE << [label |-> <<"d", "p", "-", "a", "p", "p", "s">>, path |-> <<>>] >>

\* fetchDirectory up to its await: the flags are set and the request leaves.
StartFetch(pathToLoad) ==
    /\ issued < MaxRequests
    /\ issued' = issued + 1
    /\ inflight' = inflight \cup {[id |-> issued + 1, path |-> pathToLoad]}
    /\ loading' = TRUE
    /\ error' = Null
    /\ UNCHANGED << data, shown >>

\* setPath with a new value: the effect runs fetchDirectory(path).
Navigate(to) ==
    /\ to # path
    /\ path' = to
    /\ StartFetch(to)

\* The component is mounted: the effect has issued the first fetch.
InitUI ==
    /\ path = <<>>
    /\ data = NoData
    /\ loading = TRUE
    /\ error = Null
    /\ inflight = {[id |-> 1, path |-> <<>>]}
    /\ issued = 1
    /\ shown = NoRequest

\* A breadcrumb button; it is disabled only for the current path.
ClickBreadcrumb ==
    /\ \E i \in 1..Len(ShownBreadcrumbs) : Navigate(ShownBreadcrumbs[i].path)
    /\ UNCHANGED serverVars

\* A directory's button in the table, rendered only while not loading.
ClickEntry ==
    /\ ~loading
    /\ data # NoData
    /\ \E i \in 1..Len(data.entries) :
          /\ data.entries[i].type = "directory"
          /\ Navigate(data.entries[i].relativePath)
    /\ UNCHANGED serverVars

\* "Up one level": disabled while loading, and without effect unless the
\* snapshot on display has a parent.
ClickUp ==
    /\ ~loading
    /\ data # NoData
    /\ data.parentPath # Null
    /\ Navigate(data.parentPath)
    /\ UNCHANGED serverVars

\* "Refresh": disabled while loading.
ClickRefresh ==
    /\ ~loading
    /\ StartFetch(path)
    /\ UNCHANGED path
    /\ UNCHANGED serverVars

\* A fetch settles and fetchDirectory runs on: the payload or the error is
\* stored and the loading flag is cleared.
FetchSettles ==
    /\ \E req \in inflight, ok \in BOOLEAN :
          LET res == FetchResult(req.path, ok) IN
          /\ inflight' = inflight \ {req}
          /\ shown' = req
          /\ IF res.status = 200
             THEN /\ data' = res.body
                  /\ UNCHANGED error
             ELSE /\ error' = res.body.error
                  /\ data' = NoData
          /\ loading' = FALSE
    /\ UNCHANGED << path, issued >>
    /\ UNCHANGED serverVars

NextUI ==
    \/ ClickBreadcrumb
    \/ ClickEntry
    \/ ClickUp
    \/ ClickRefresh
    \/ FetchSettles

InitExplorer == InitServerIdle /\ InitUI

SpecUI == InitExplorer /\ [][NextUI]_vars

\* ------------------------------------------------------- claim vocabulary

\* The positions where a segment of p starts and ends: a segment is a
\* maximal run of characters other than the separator.
SegStarts(p) == { i \in 1..Len(p) : p[i] # Slash /\ (i = 1 \/ p[i - 1] = Slash) }
SegEnd(p, i) == CHOOSE j \in i..Len(p) :
    /\ \A k \in i..j : p[k] # Slash
    /\ (j = Len(p) \/ p[j + 1] = Slash)

\* The non-empty '/'-separated segments of p, in order.
SegmentsOf(p) ==
    LET starts == SegStarts(p)
        nth(n) == CHOOSE i \in starts :
                      Cardinality({ k \in starts : k < i }) = n - 1
    IN [n \in 1..Cardinality(starts) |-> SubSeq(p, nth(n), SegEnd(p, nth(n)))]

\* Collapsing the segments of a request against a stack of directory names:
\* "." stays, ".." goes one up (and stays at the filesystem root), a name
\* goes one down.
RECURSIVE Collapse(_, _)
Collapse(stack, segs) ==
    IF segs = <<>> THEN stack
    ELSE Collapse(CASE Head(segs) = Dot -> stack
                    [] Head(segs) = DotDot ->
                         IF stack = <<>> THEN stack
                         ELSE SubSeq(stack, 1, Len(stack) - 1)
                    [] OTHER -> Append(stack, Head(segs)),
                  Tail(segs))

BaseSegments == SegmentsOf(BASE_DIRECTORY)

\* The directory names from the filesystem root that request p denotes.
Denoted(p) == Collapse(BaseSegments, SegmentsOf(p))

\* Request p normalizes inside the base directory: to the base or below it.
NormalizesInside(p) ==
    /\ Len(Denoted(p)) >= Len(BaseSegments)
    /\ SubSeq(Denoted(p), 1, Len(BaseSegments)) = BaseSegments

\* An absolute path is the base or starts with the base and a separator.
InsideBase(abs) ==
    \/ abs = BASE_DIRECTORY
    \/ StartsWith(abs, BASE_DIRECTORY \o <<Slash>>)

\* Child j of the listing sorts before child k: by type, then by name, and
\* by listing position when both compare equal.
SortsBefore(j, k) ==
    LET a == dirents[j]
        b == dirents[k]
    IN IF a.isDirectory # b.isDirectory THEN a.isDirectory
       ELSE \/ LocaleCompare(a.name, b.name) < 0
            \/ LocaleCompare(a.name, b.name) = 0 /\ j < k

Returned == snapshot # NoSnapshot
Failed == thrown # NoError

\* ------------------------------------------------------------------ claims

\* C1: every returned snapshot's absolutePath is the base or starts with
\* the base followed by a separator, and no filesystem call is ever issued
\* on a path outside the base (a sibling such as /dp-apps-evil is rejected
\* before the directory listing).
C1_Containment ==
    /\ Returned => InsideBase(snapshot.absolutePath)
    /\ \A call \in fsOps : InsideBase(call.path)

\* C2: in every returned snapshot, parentPath is null exactly when the
\* requested path resolves to the base directory itself.
C2_ParentNullIffRoot ==
    Returned =>
        (snapshot.parentPath = Null <=> snapshot.absolutePath = BASE_DIRECTORY)

\* C3: every failure of readDirectory is answered with status 400 and a
\* body {error: message} whose message names no internal absolute path.
C3_GenericFailure ==
    Failed =>
        /\ response.status = 400
        /\ response.body = [error |-> thrown.message]
        /\ response.body.error.path = <<>>

\* C4: if the metadata read of any child fails, readDirectory fails as a
\* whole: no snapshot is returned then, and no returned snapshot omits a
\* child that the listing reported.
C4_ChildFailureFailsAll ==
    /\ (disk.code = "OK" /\ disk.statFails # {}) => ~Returned
    /\ (pc = "done" /\ disk.code = "OK" /\ disk.statFails # {}) =>
           (Failed /\ response.status = 400)
    /\ Returned =>
           /\ Len(snapshot.entries) = Len(disk.children)
           /\ \A i \in 1..Len(disk.children) :
                  \E j \in 1..Len(snapshot.entries) :
                      snapshot.entries[j].name = disk.children[i].name

\* A child's stat failed after other children's stats had already
\* succeeded, and the request failed.
C4_Witness ==
    /\ pc = "done"
    /\ Failed
    /\ Len(completed) >= 2
    /\ \E i \in 1..Len(results) : results[i] # NoEntry

\* C5: when the requested path normalizes outside the base directory,
\* readDirectory fails with the out-of-bounds error before any filesystem
\* call is issued.
C5_RejectedBeforeFsAccess ==
    (pc # "start" /\ ~NormalizesInside(requestedPath)) =>
        /\ fsOps = {}
        /\ thrown = OutOfBoundsError

\* C6: a requested path that normalizes inside the base directory never
\* raises the out-of-bounds error, is resolved beneath the base also when it
\* starts with separators, and is read successfully whenever the resolved
\* path is a readable directory whose children are all readable.
C6_InsideResolves ==
    NormalizesInside(requestedPath) =>
        /\ thrown # OutOfBoundsError
        /\ pc # "start" =>
               absolutePath = <<Slash>> \o JoinSlash(Denoted(requestedPath))
        /\ (pc = "done" /\ disk.code = "OK" /\ disk.statFails = {}) =>
               (Returned /\ response = [status |-> 200, body |-> snapshot])

\* The request "/etc" was read as /dp-apps/etc.
C6_Witness ==
    /\ requestedPath = <<Slash>> \o Etc
    /\ Returned
    /\ snapshot.absolutePath = BASE_DIRECTORY \o <<Slash>> \o Etc

\* C7: the entries of a returned snapshot are a permutation of the listed
\* children, every directory precedes every file, and within the
\* directories and within the files names ascend under localeCompare.
C7_SortedEntries ==
    Returned =>
        LET e == snapshot.entries IN
        /\ Len(e) = Len(dirents)
        /\ \A i \in 1..Len(dirents) :
               \E j \in 1..Len(e) : e[j] = EntryOf(dirents[i], absolutePath)
        /\ \A i, j \in 1..Len(e) :
               i < j =>
                  /\ ~(e[i].type = "file" /\ e[j].type = "directory")
                  /\ e[i].type = e[j].type =>
                         LocaleCompare(e[i].name, e[j].name) <= 0

\* The listing ["b.txt", "A", "a.txt", "B"] came back as
\* ["A", "B", "a.txt", "b.txt"].
C7_Witness ==
    /\ Returned
    /\ dirents = ExampleListing
    /\ [i \in 1..Len(snapshot.entries) |-> snapshot.entries[i].name]
           = << DirA.name, DirB.name, FileA.name, FileB.name >>

\* C8: the breadcrumbs of a returned snapshot start with the base
\* directory's name and the empty path, followed by one breadcrumb per
\* non-empty segment of the raw requested path, labelled with the segment
\* and holding the segments so far joined by '/'; parentPath is the
\* second-to-last breadcrumb's path when there is more than one breadcrumb.
C8_Breadcrumbs ==
    Returned =>
        LET b == snapshot.breadcrumbs
            segs == SegmentsOf(snapshot.requestedPath)
        IN /\ Len(b) = Len(segs) + 1
           /\ b[1] = [label |-> <<"d", "p", "-", "a", "p", "p", "s">>,
                      path |-> <<>>]
           /\ \A i \in 1..Len(segs) :
                  /\ b[i + 1].label = segs[i]
                  /\ b[i + 1].path =
                        IF i = 1 THEN segs[1]
                        ELSE b[i].path \o <<Slash>> \o segs[i]
           /\ Len(b) > 1 => snapshot.parentPath = b[Len(b) - 1].path

\* The request "foo/bar" got the three breadcrumbs of the documentation
\* and parentPath "foo".
C8_Witness ==
    /\ Returned
    /\ requestedPath = Foo \o <<Slash>> \o Bar
    /\ Len(snapshot.breadcrumbs) = 3
    /\ snapshot.breadcrumbs[3] = [label |-> Bar, path |-> Foo \o <<Slash>> \o Bar]
    /\ snapshot.parentPath = Foo

\* C9: the returned entries depend on the listing alone, not on the order
\* in which the stats settled: each listed child stands at the position
\* given by its type, its name and, for equal names, its listing position.
C9_OrderIndependent ==
    Returned =>
        \A k \in 1..Len(dirents) :
            snapshot.entries[1 + Cardinality({ j \in 1..Len(dirents) :
                                                  SortsBefore(j, k) })]
                = EntryOf(dirents[k], absolutePath)

\* A snapshot was returned for a listing with two names that compare
\* equal, after the stats settled in an order other than the listing's.
C9_Witness ==
    /\ Returned
    /\ \E j, k \in 1..Len(dirents) :
           /\ j < k
           /\ dirents[j].isDirectory = dirents[k].isDirectory
           /\ LocaleCompare(dirents[j].name, dirents[k].name) = 0
           /\ \E m, n \in 1..Len(completed) :
                  m < n /\ completed[m] = k /\ completed[n] = j

\* C10: while a request is in flight the loading flag is set, and once no
\* request is in flight the result on display is the one of a request for
\* the currently selected path.
C10_LatestWins ==
    /\ inflight # {} => loading
    /\ (inflight = {} /\ shown # NoRequest) => shown.path = path

====
